---- MODULE Spec2Model ----
(***************************************************************************)
(* State-machine model of src/app.py: the check-in widget.  A main script  *)
(* builds a ResponseGraph, registers it as subscriber of ResponseButton,   *)
(* constructs the buttons (each constructor prompts the user through       *)
(* open_choice_menu) and then runs the Tk main loop.  The prompt waits in  *)
(* a nested event loop (wait_window), so button commands can start while a *)
(* prompt is open; the activations in progress form a call stack.          *)
(***************************************************************************)
EXTENDS Integers, Sequences, FiniteSets, TLC

\* ---------------------------------------------------------------------
\* Program constants
\* ---------------------------------------------------------------------

\* CHOICES (app.py:45)
CHOICES == <<"Option 1", "Option 2", "Option 3">>

\* CHOICE_COLOR (app.py:46-50)
CHOICE_COLOR ==
    [c \in {"Option 1", "Option 2", "Option 3"} |->
        CASE c = "Option 1" -> "#baffc9"
          [] c = "Option 2" -> "#bae1ff"
          [] c = "Option 3" -> "#ffb3ba"]

\* Python's None
None == "None"

\* ---------------------------------------------------------------------
\* Bounds of the model
\* ---------------------------------------------------------------------

\* number of buttons the main loop creates (range(5) at app.py:185, reduced)
NumButtons == 2

\* deepest nesting of activations (prompts open at the same time)
MaxDepth == 2

\* number of button presses the user makes in one run
MaxPresses == 2
MaxTipPresses == 1

\* the wall clock: ticks per second and seconds per day (a reduced day)
TicksPerSecond == 2

SecondsPerDay == 2

\* longest choice list handed to open_choice_menu on its own
MaxLen == 3

\* number of update events fed to a graph on its own
MaxEvents == 3

\* number of draw() calls a graph on its own may have gone through
MaxDraws == 4

\* ---------------------------------------------------------------------
\* Helpers
\* ---------------------------------------------------------------------

Elems(s) == {s[i] : i \in 1..Len(s)}

ChoiceSet == Elems(CHOICES)

Buttons == 1..NumButtons

DayTicks == SecondsPerDay * TicksPerSecond

RECURSIVE SumOver(_, _)
SumOver(f, S) ==
    IF S = {} THEN 0
    ELSE LET x == CHOOSE y \in S : TRUE IN f[x] + SumOver(f, S \ {x})

\* sum of all the counts of one tally
Total(b) == SumOver(b, DOMAIN b)

\* ---------------------------------------------------------------------
\* Pure parts of the program
\* ---------------------------------------------------------------------

\* datetime.now().time().strftime('%H:%M:%S') (app.py:72): the text of the time
\* of day truncated to whole seconds, written as the tuple of its second
strftime(t) == <<(t % DayTicks) \div TicksPerSecond>>

\* open_choice_menu with the radio variable started at the last choice
open_choice_menu_last(choices) ==
    [choices |-> choices, radio_out |-> choices[Len(choices)], open |-> TRUE]

\* open_choice_menu up to wait_window (app.py:25-41): the window is open and
\* the radio variable holds the first choice
open_choice_menu(choices) ==
    [choices |-> choices, radio_out |-> choices[1], open |-> TRUE]

\* the user clicks the i-th radio button: Radiobutton(variable=radio_out,
\* value=choice) (app.py:27-34)
radio_select(m, i) == [m EXCEPT !.radio_out = m.choices[i]]

\* Submit (command=window.destroy, app.py:35-40) or closing the window
window_destroy(m) == [m EXCEPT !.open = FALSE]

\* return radio_out.get() (app.py:42)
menu_result(m) == m.radio_out

\* get_user_input = partial(open_choice_menu, CHOICES) (app.py:51)
get_user_input == open_choice_menu(CHOICES)

\* ResponseGraph.__init__ with the first bar started at one
ResponseGraph_init_one ==
    [c \in ChoiceSet |-> IF c = CHOICES[1] THEN 1 ELSE 0]

\* ResponseGraph.__init__: self.bars = {curr: 0 for curr in CHOICES} (app.py:146)
ResponseGraph_init == [c \in ChoiceSet |-> 0]

\* ResponseGraph.update without the decrement of the old response
ResponseGraph_update_nodec(b, old_resp, new_resp) ==
    [b EXCEPT ![new_resp] = @ + 1]

\* ResponseGraph.update with "= -1" written for "-= 1"
ResponseGraph_update_assign(b, old_resp, new_resp) ==
    LET dec == IF old_resp # None
               THEN [b EXCEPT ![old_resp] = 0 - 1]
               ELSE b
    IN [dec EXCEPT ![new_resp] = @ + 1]

\* ResponseGraph.update (app.py:160-162)
ResponseGraph_update(b, old_resp, new_resp) ==
    LET dec == IF old_resp # None
               THEN [b EXCEPT ![old_resp] = @ - 1]
               ELSE b
    IN [dec EXCEPT ![new_resp] = @ + 1]

\* ResponseGraph.draw (app.py:165-171): the heights handed to axes.bar
draw_heights(b) == [i \in 1..Len(CHOICES) |-> b[CHOICES[i]]]

\* draw() that also clears the counts it has drawn
ResponseGraph_draw_clears(gs) ==
    [gs EXCEPT !.bars = [c \in DOMAIN gs.bars |-> 0],
               !.canvas = draw_heights(gs.bars),
               !.draws = @ + 1]

\* ResponseGraph.draw on a graph object (app.py:165-171): the bars are
\* redrawn from self.bars, which is left as it is
ResponseGraph_draw(gs) ==
    [gs EXCEPT !.canvas = draw_heights(gs.bars), !.draws = @ + 1]

\* ResponseGraph(...) (app.py:140-147): the fresh graph object
ResponseGraph_new ==
    ResponseGraph_draw([bars |-> ResponseGraph_init, canvas |-> <<>>,
                        draws |-> 0])

\* graph.update(old_resp, new_resp) on a graph object (app.py:149-163)
ResponseGraph_receive(gs, old_resp, new_resp) ==
    ResponseGraph_draw(
        [gs EXCEPT !.bars = ResponseGraph_update(gs.bars, old_resp, new_resp)])

\* show_tooltip without the "already activated" test
show_tooltip_always(t, text) ==
    [tooltip |-> <<text>>, windows |-> t.windows + 1]

\* ResponseButton.show_tooltip (app.py:83-100) on the tooltip state of one
\* button: self.tooltip (<<>> for None, else the window with its label text)
\* and the number of tooltip windows of the button that exist
show_tooltip(t, text) ==
    IF t.tooltip # <<>>
    THEN t
    ELSE [tooltip |-> <<text>>, windows |-> t.windows + 1]

\* ResponseButton.hide_tooltip (app.py:102-106)
hide_tooltip(t) ==
    IF t.tooltip # <<>>
    THEN [tooltip |-> <<>>, windows |-> t.windows - 1]
    ELSE t

\* update_response notifying before it stores the prompt's result
update_response_body_early ==
    <<"wait", "notify", "assign", "config", "return">>

\* the statements of update_response after the prompt has been opened, in
\* program order (app.py:79-81): wait for the prompt, store its result,
\* colour the button, notify, return
update_response_body == <<"wait", "assign", "config", "notify", "return">>

StmtAfter(p) ==
    LET k == CHOOSE i \in 1..Len(update_response_body) :
                 update_response_body[i] = p
    IN update_response_body[k + 1]

\* update_response that keeps the prompt's result in a local only
store_resp_drop(r, b, v) == r

\* self.resp = get_user_input() (app.py:79)
store_resp(r, b, v) == [r EXCEPT ![b] = v]

\* cls._subscribers.append(new_sub) (app.py:115)
register_subscriber(subs, g) == Append(subs, g)

\* ---------------------------------------------------------------------
\* State
\* ---------------------------------------------------------------------

VARIABLES
    pc,           \* position of the main script (app.py:174-194)
    created,      \* number of ResponseButton constructors started
    resp,         \* button -> self.resp
    time,         \* button -> self.time
    bg,           \* button -> self['bg']
    root_buttons, \* the list root_buttons: the packed buttons
    subscribers,  \* ResponseButton._subscribers
    bars,         \* constructed graph -> self.bars
    canvas,       \* constructed graph -> the bar heights last drawn
    draws,        \* constructed graph -> number of draw() calls so far
    stack,        \* the update_response activations in progress, innermost last
    rootAlive,    \* the root window exists
    errFate,      \* where the TclErrors raised so far ended up
    clock,        \* wall clock, in ticks since midnight
    presses,      \* history: number of button presses so far
    responded,    \* history: buttons whose update_response has returned
    lastSel,      \* history: button -> the last result its prompt returned
    scen,         \* history: how far the completed responses follow Scenario
    dlg,          \* a choice menu opened on its own
    dlgTouched,   \* history: the user has selected a radio option in dlg
    dlgResult,    \* what open_choice_menu returned for dlg
    tip,          \* button -> self.tooltip and its live tooltip windows
    seen,         \* history: constructed graph -> buttons it was notified of
    next_id,      \* the class attribute ResponseButton._next_id
    but_id,       \* button -> self.but_id, <<>> while unset
    self_next_id, \* button -> the instance attribute self._next_id, <<>> while unset
    fg,           \* two graph objects fed the same update events directly
    fedPlus,      \* history: choice -> number of events fed with it as new
    fedMinus      \* history: choice -> number of events fed with it as old

vars == <<pc, created, resp, time, bg, root_buttons, subscribers, bars, canvas,
          draws, stack, rootAlive, errFate, clock, presses, responded, lastSel, scen,
          dlg, dlgTouched, dlgResult, fg, fedPlus, fedMinus, next_id, but_id,
          self_next_id, seen, tip>>

progVars == <<pc, created, resp, time, bg, root_buttons, subscribers, bars,
              canvas, draws, stack, rootAlive, errFate, clock, presses, responded,
              lastSel, scen, next_id, but_id, self_next_id, seen, tip>>

dlgVars == <<dlg, dlgTouched, dlgResult>>

feedVars == <<fg, fedPlus, fedMinus>>

idVars == <<next_id, but_id, self_next_id>>

\* the attribute lookup self.<name>: the instance attribute when the instance
\* has one, the class attribute otherwise
Lookup(inst, cls) == IF inst = <<>> THEN cls ELSE inst[1]

\* the two graph objects of the direct feed
FeedGraphs == {1, 2}

\* the graph object the main script builds (app.py:181)
graph == 1

\* a second graph object, built and registered by a later caller
late == 2

\* the scenario of the tally: source 1 picks the first choice, source 2 the
\* second, source 1 then changes to the third
Scenario == << <<1, CHOICES[1]>>, <<2, CHOICES[2]>>, <<1, CHOICES[3]>> >>

Top == stack[Len(stack)]

\* the Tk event loop is dispatching events: mainloop (app.py:191) or the
\* innermost wait_window (app.py:41) whose window still exists
EventLoop ==
    /\ rootAlive
    /\ IF stack = <<>> THEN pc = "mainloop"
       ELSE Top.pc = "wait" /\ Top.menu.open

\* the statement reached after statement p; notify_subscribers with no
\* subscriber runs no iteration (app.py:129)
Advance(p) ==
    LET n == StmtAfter(p)
    IN IF n = "notify" /\ subscribers = <<>> THEN StmtAfter(n) ELSE n

\* update_response that never reads the old response
Frame_noold(b, ctor, old) ==
    [but |-> b, ctor |-> ctor, old_resp |-> None, menu |-> get_user_input,
     pc |-> "wait", idx |-> 1, ret |-> None, prev |-> None]

\* a new activation of update_response: old_resp = self.resp (app.py:78) and
\* the prompt of get_user_input() opened (app.py:79, 25-41)
Frame(b, ctor, old) ==
    [but |-> b, ctor |-> ctor, old_resp |-> old, menu |-> get_user_input,
     pc |-> "wait", idx |-> 1, ret |-> None, prev |-> None]

ReplaceTop(f) == [stack EXCEPT ![Len(stack)] = f]

Pop == SubSeq(stack, 1, Len(stack) - 1)

\* the state when the main script starts (app.py:174-178), the wall clock
\* being one of the times t0
InitAt(t0) ==
    /\ pc = "graph"
    /\ created = 0
    /\ resp = [b \in Buttons |-> None]
    /\ time = [b \in Buttons |-> <<>>]
    /\ bg = [b \in Buttons |-> None]
    /\ root_buttons = <<>>
    /\ subscribers = <<>>
    /\ bars = <<>>
    /\ canvas = <<>>
    /\ draws = <<>>
    /\ stack = <<>>
    /\ rootAlive = TRUE
    /\ errFate = {}
    /\ clock \in t0
    /\ presses = 0
    /\ responded = {}
    /\ lastSel = [b \in Buttons |-> None]
    /\ scen = 0
    /\ seen = <<>>
    /\ tip = [b \in Buttons |-> [tooltip |-> <<>>, windows |-> 0]]
    /\ next_id = 0
    /\ but_id = [b \in Buttons |-> <<>>]
    /\ self_next_id = [b \in Buttons |-> <<>>]

\* no choice menu is open on its own
NoDlg ==
    /\ dlg = window_destroy(get_user_input)
    /\ dlgTouched = FALSE
    /\ dlgResult = menu_result(get_user_input)

\* two fresh graphs that have been fed nothing
NoFeed ==
    /\ fg = [g \in FeedGraphs |-> ResponseGraph_new]
    /\ fedPlus = [c \in ChoiceSet |-> 0]
    /\ fedMinus = [c \in ChoiceSet |-> 0]

Init == InitAt({0}) /\ NoDlg /\ NoFeed

\* ---------------------------------------------------------------------
\* The main script (app.py:174-194)
\* ---------------------------------------------------------------------

\* graph = ResponseGraph(root) (app.py:181, 140-147)
MakeGraph ==
    /\ pc = "graph"
    /\ bars' = (graph :> ResponseGraph_init)
    /\ canvas' = (graph :> draw_heights(ResponseGraph_init))
    /\ draws' = (graph :> 1)
    /\ seen' = (graph :> {})
    /\ pc' = "register"
    /\ UNCHANGED <<created, resp, time, bg, root_buttons, subscribers, stack,
                   rootAlive, errFate, clock, responded, scen, presses,
                   lastSel, dlgVars, feedVars, idVars, tip>>

\* ResponseButton.register_subscriber(graph) (app.py:182, 108-115)
Register ==
    /\ pc = "register"
    /\ subscribers' = register_subscriber(subscribers, graph)
    /\ pc' = "create"
    /\ UNCHANGED <<created, resp, time, bg, root_buttons, bars, canvas, draws,
                   stack, rootAlive, errFate, clock, responded, scen, presses,
                   lastSel, dlgVars, feedVars, idVars, seen, tip>>

\* but = ResponseButton(root, ...) (app.py:187): __init__ (app.py:59-74) up
\* to the prompt of its update_response call.  The assignment to
\* self._next_id (app.py:71) sets an attribute of the instance
Construct ==
    /\ pc = "create"
    /\ created < NumButtons
    /\ LET b == created + 1
       IN /\ created' = b
          /\ but_id' = [but_id EXCEPT
                 ![b] = <<Lookup(self_next_id[b], next_id)>>]
          /\ self_next_id' = [self_next_id EXCEPT
                 ![b] = <<Lookup(self_next_id[b], next_id) + 1>>]
          /\ next_id' = next_id
          /\ time' = [time EXCEPT ![b] = strftime(clock)]
          /\ resp' = [resp EXCEPT ![b] = None]
          /\ stack' = Append(stack, Frame(b, TRUE, None))
    /\ pc' = "init"
    /\ UNCHANGED <<bg, root_buttons, subscribers, bars, canvas, draws,
                   rootAlive, errFate, clock, responded, scen, presses,
                   lastSel, dlgVars, feedVars, seen, tip>>

\* but.pack(...); root_buttons.append(but) (app.py:188-189)
Pack ==
    /\ pc = "pack"
    /\ root_buttons' = Append(root_buttons, created)
    /\ pc' = "create"
    /\ UNCHANGED <<created, resp, time, bg, subscribers, bars, canvas, draws,
                   stack, rootAlive, errFate, clock, responded, scen, presses,
                   lastSel, dlgVars, feedVars, idVars, seen, tip>>

\* the for loop is exhausted: root.mainloop() (app.py:185, 191)
StartMainloop ==
    /\ pc = "create"
    /\ created = NumButtons
    /\ pc' = "mainloop"
    /\ UNCHANGED <<created, resp, time, bg, root_buttons, subscribers, bars,
                   canvas, draws, stack, rootAlive, errFate, clock, responded,
                   scen, presses, lastSel, dlgVars, feedVars, idVars, seen, tip>>

\* mainloop returns once the root window is gone; the script ends
MainloopReturn ==
    /\ pc = "mainloop"
    /\ stack = <<>>
    /\ ~rootAlive
    /\ pc' = "exited"
    /\ UNCHANGED <<created, resp, time, bg, root_buttons, subscribers, bars,
                   canvas, draws, stack, rootAlive, errFate, clock, responded,
                   scen, presses, lastSel, dlgVars, feedVars, idVars, seen, tip>>

\* except tk.TclError: print; sys.exit() (app.py:192-194)
ExceptTclError ==
    /\ pc = "except"
    /\ errFate' = errFate \cup {"top_level"}
    /\ pc' = "exited"
    /\ UNCHANGED <<created, resp, time, bg, root_buttons, subscribers, bars,
                   canvas, draws, stack, rootAlive, clock, responded, scen,
                   presses, lastSel, dlgVars, feedVars, idVars, seen, tip>>

\* ---------------------------------------------------------------------
\* update_response (app.py:76-81), one activation per stack frame
\* ---------------------------------------------------------------------

\* the button's command runs (app.py:68): old_resp = self.resp and the prompt
\* opens (app.py:78-79); only a packed button can be pressed
Press(b) ==
    /\ EventLoop
    /\ b \in Elems(root_buttons)
    /\ Len(stack) < MaxDepth
    /\ presses < MaxPresses
    /\ presses' = presses + 1
    /\ stack' = Append(stack, Frame(b, FALSE, resp[b]))
    /\ UNCHANGED <<pc, created, resp, time, bg, root_buttons, subscribers,
                   bars, canvas, draws, rootAlive, errFate, clock, responded,
                   scen, lastSel, dlgVars, feedVars, idVars, seen, tip>>

\* the user selects a radio option in one of the open prompts
SelectRadio(k, i) ==
    /\ EventLoop
    /\ k \in 1..Len(stack)
    /\ stack[k].menu.open
    /\ i \in 1..Len(stack[k].menu.choices)
    /\ stack' = [stack EXCEPT ![k].menu = radio_select(@, i)]
    /\ UNCHANGED <<pc, created, resp, time, bg, root_buttons, subscribers,
                   bars, canvas, draws, rootAlive, errFate, clock, responded,
                   scen, presses, lastSel, dlgVars, feedVars, idVars, seen, tip>>

\* the user submits or closes one of the open prompts
Submit(k) ==
    /\ EventLoop
    /\ k \in 1..Len(stack)
    /\ stack[k].menu.open
    /\ stack' = [stack EXCEPT ![k].menu = window_destroy(@)]
    /\ UNCHANGED <<pc, created, resp, time, bg, root_buttons, subscribers,
                   bars, canvas, draws, rootAlive, errFate, clock, responded,
                   scen, presses, lastSel, dlgVars, feedVars, idVars, seen, tip>>

\* the user closes the root window: every window is destroyed with it
CloseRoot ==
    /\ EventLoop
    /\ rootAlive' = FALSE
    /\ stack' = [k \in 1..Len(stack) |->
                    [stack[k] EXCEPT !.menu = window_destroy(@)]]
    /\ tip' = [b \in Buttons |-> [tip[b] EXCEPT !.windows = 0]]
    /\ UNCHANGED <<pc, created, resp, time, bg, root_buttons, subscribers,
                   bars, canvas, draws, errFate, clock, responded, scen,
                   presses, lastSel, dlgVars, feedVars, idVars, seen>>

\* time passes while the event loop waits for the user
Tick ==
    /\ EventLoop
    /\ clock' = (clock + 1) % DayTicks
    /\ UNCHANGED <<pc, created, resp, time, bg, root_buttons, subscribers,
                   bars, canvas, draws, stack, rootAlive, errFate, responded,
                   scen, presses, lastSel, dlgVars, feedVars, idVars, seen, tip>>

\* wait_window returns in the innermost activation once its window is gone,
\* and open_choice_menu returns radio_out.get() (app.py:41-42)
WaitReturn ==
    /\ stack # <<>>
    /\ Top.pc = "wait"
    /\ ~Top.menu.open
    /\ stack' = ReplaceTop([Top EXCEPT !.ret = menu_result(Top.menu),
                                       !.pc = Advance("wait")])
    /\ lastSel' = [lastSel EXCEPT ![Top.but] = menu_result(Top.menu)]
    /\ UNCHANGED <<pc, created, resp, time, bg, root_buttons, subscribers,
                   bars, canvas, draws, rootAlive, errFate, clock, responded,
                   scen, presses, dlgVars, feedVars, idVars, seen, tip>>

\* self.resp = <the prompt's result> (app.py:79)
Assign ==
    /\ stack # <<>>
    /\ Top.pc = "assign"
    /\ resp' = store_resp(resp, Top.but, Top.ret)
    /\ stack' = ReplaceTop([Top EXCEPT !.prev = resp[Top.but],
                                       !.pc = Advance("assign")])
    /\ UNCHANGED <<pc, created, time, bg, root_buttons, subscribers, bars,
                   canvas, draws, rootAlive, errFate, clock, responded, scen,
                   presses, lastSel, dlgVars, feedVars, idVars, seen, tip>>

\* self['bg'] = CHOICE_COLOR[self.resp] (app.py:80) on an existing widget
Config ==
    /\ stack # <<>>
    /\ Top.pc = "config"
    /\ rootAlive
    /\ bg' = [bg EXCEPT ![Top.but] = CHOICE_COLOR[resp[Top.but]]]
    /\ stack' = ReplaceTop([Top EXCEPT !.pc = Advance("config")])
    /\ UNCHANGED <<pc, created, resp, time, root_buttons, subscribers, bars,
                   canvas, draws, rootAlive, errFate, clock, responded, scen,
                   presses, lastSel, dlgVars, feedVars, idVars, seen, tip>>

\* self['bg'] = ... (app.py:80) on a destroyed widget raises TclError.  From
\* the constructor it propagates to the try of the main script (app.py:184,
\* 192); from a button command Tk's callback wrapper reports it and the
\* event loop goes on
ConfigRaises ==
    /\ stack # <<>>
    /\ Top.pc = "config"
    /\ ~rootAlive
    /\ stack' = Pop
    /\ IF Top.ctor
       THEN pc' = "except" /\ errFate' = errFate
       ELSE pc' = pc /\ errFate' = errFate \cup {"callback"}
    /\ UNCHANGED <<created, resp, time, bg, root_buttons, subscribers, bars,
                   canvas, draws, rootAlive, clock, responded, scen, presses,
                   lastSel, dlgVars, feedVars, idVars, seen, tip>>

\* one iteration of notify_subscribers (app.py:129-130) called with
\* (old_resp, self.resp) (app.py:81): sub.update and its draw (app.py:160-163)
Notify ==
    /\ stack # <<>>
    /\ Top.pc = "notify"
    /\ Top.idx <= Len(subscribers)
    /\ LET g == subscribers[Top.idx]
           nb == ResponseGraph_update(bars[g], Top.old_resp, resp[Top.but])
       IN /\ bars' = [bars EXCEPT ![g] = nb]
          /\ canvas' = [canvas EXCEPT ![g] = draw_heights(nb)]
          /\ draws' = [draws EXCEPT ![g] = @ + 1]
          /\ seen' = [seen EXCEPT ![g] = @ \cup {Top.but}]
    /\ stack' = ReplaceTop([Top EXCEPT
                    !.idx = @ + 1,
                    !.pc = IF Top.idx = Len(subscribers)
                           THEN Advance("notify") ELSE "notify"])
    /\ UNCHANGED <<pc, created, resp, time, bg, root_buttons, subscribers,
                   rootAlive, errFate, clock, responded, scen, presses,
                   lastSel, dlgVars, feedVars, idVars, tip>>

\* update_response returns: to __init__, which returns to the main script
\* (app.py:74, 187), or to the event loop that ran the command
Return ==
    /\ stack # <<>>
    /\ Top.pc = "return"
    /\ stack' = Pop
    /\ responded' = responded \cup {Top.but}
    /\ scen' = IF /\ scen \in 0..(Len(Scenario) - 1)
                  /\ Scenario[scen + 1] = <<Top.but, resp[Top.but]>>
               THEN scen + 1
               ELSE 0 - 1
    /\ pc' = IF Top.ctor THEN "pack" ELSE pc
    /\ UNCHANGED <<created, resp, time, bg, root_buttons, subscribers, bars,
                   canvas, draws, rootAlive, errFate, clock, presses, lastSel,
                   dlgVars, feedVars, idVars, seen, tip>>

Next ==
    \/ MakeGraph
    \/ Register
    \/ Construct
    \/ Pack
    \/ StartMainloop
    \/ MainloopReturn
    \/ ExceptTclError
    \/ \E b \in Buttons : Press(b)
    \/ \E k \in 1..MaxDepth, i \in 1..Len(CHOICES) : SelectRadio(k, i)
    \/ \E k \in 1..MaxDepth : Submit(k)
    \/ CloseRoot
    \/ WaitReturn
    \/ Assign
    \/ Config
    \/ ConfigRaises
    \/ Notify
    \/ Return

Spec == Init /\ [][Next]_vars

\* the button is pressed while no activation is in progress
PressAlone(b) ==
    /\ stack = <<>>
    /\ Press(b)

\* the same program with a user who never presses a button while a prompt
\* is open, so that activations never overlap
NextSeq ==
    \/ MakeGraph
    \/ Register
    \/ Construct
    \/ Pack
    \/ StartMainloop
    \/ MainloopReturn
    \/ ExceptTclError
    \/ \E b \in Buttons : PressAlone(b)
    \/ \E k \in 1..MaxDepth, i \in 1..Len(CHOICES) : SelectRadio(k, i)
    \/ \E k \in 1..MaxDepth : Submit(k)
    \/ CloseRoot
    \/ WaitReturn
    \/ Assign
    \/ Config
    \/ ConfigRaises
    \/ Notify
    \/ Return

SpecSeq == Init /\ [][NextSeq]_vars

\* a handler run by the event loop builds a fresh graph and registers it
\* (app.py:140-147, 108-115) when some button already holds a response
RegisterLate ==
    /\ EventLoop
    /\ late \notin DOMAIN bars
    /\ \E b \in Buttons : resp[b] # None
    /\ bars' = bars @@ (late :> ResponseGraph_init)
    /\ canvas' = canvas @@ (late :> draw_heights(ResponseGraph_init))
    /\ draws' = draws @@ (late :> 1)
    /\ seen' = seen @@ (late :> {})
    /\ subscribers' = register_subscriber(subscribers, late)
    /\ UNCHANGED <<pc, created, resp, time, bg, root_buttons, stack,
                   rootAlive, errFate, clock, responded, scen, presses,
                   lastSel, dlgVars, feedVars, idVars, tip>>

\* the same program with a subscriber registered late
NextLate ==
    \/ MakeGraph
    \/ Register
    \/ Construct
    \/ Pack
    \/ StartMainloop
    \/ MainloopReturn
    \/ ExceptTclError
    \/ \E b \in Buttons : Press(b)
    \/ \E k \in 1..MaxDepth, i \in 1..Len(CHOICES) : SelectRadio(k, i)
    \/ \E k \in 1..MaxDepth : Submit(k)
    \/ CloseRoot
    \/ WaitReturn
    \/ Assign
    \/ Config
    \/ ConfigRaises
    \/ Notify
    \/ Return
    \/ RegisterLate

SpecLate == Init /\ [][NextLate]_vars

\* the pointer enters a packed button: <Enter> runs show_tooltip (app.py:64)
\* with the label text f'{self.time} -> {self.resp}' (app.py:94)
Enter(b) ==
    /\ EventLoop
    /\ b \in Elems(root_buttons)
    /\ tip' = [tip EXCEPT ![b] = show_tooltip(@, <<time[b], resp[b]>>)]
    /\ UNCHANGED <<pc, created, resp, time, bg, root_buttons, subscribers,
                   bars, canvas, draws, stack, rootAlive, errFate, clock,
                   responded, scen, presses, lastSel, dlgVars, feedVars,
                   idVars, seen>>

\* the pointer leaves a packed button: <Leave> runs hide_tooltip (app.py:65)
Leave(b) ==
    /\ EventLoop
    /\ b \in Elems(root_buttons)
    /\ tip' = [tip EXCEPT ![b] = hide_tooltip(@)]
    /\ UNCHANGED <<pc, created, resp, time, bg, root_buttons, subscribers,
                   bars, canvas, draws, stack, rootAlive, errFate, clock,
                   responded, scen, presses, lastSel, dlgVars, feedVars,
                   idVars, seen>>

\* the same program with the pointer moving over the buttons, followed for
\* MaxTipPresses button presses
NextTip ==
    \/ MakeGraph
    \/ Register
    \/ Construct
    \/ Pack
    \/ StartMainloop
    \/ MainloopReturn
    \/ ExceptTclError
    \/ \E b \in Buttons : presses < MaxTipPresses /\ Press(b)
    \/ \E k \in 1..MaxDepth, i \in 1..Len(CHOICES) : SelectRadio(k, i)
    \/ \E k \in 1..MaxDepth : Submit(k)
    \/ CloseRoot
    \/ WaitReturn
    \/ Assign
    \/ Config
    \/ ConfigRaises
    \/ Notify
    \/ Return
    \/ \E b \in Buttons : Enter(b)
    \/ \E b \in Buttons : Leave(b)

SpecTip == Init /\ [][NextTip]_vars

\* the same program started at any time of day, with time passing
InitClock == InitAt(0..(DayTicks - 1)) /\ NoDlg /\ NoFeed

NextClock ==
    \/ MakeGraph
    \/ Register
    \/ Construct
    \/ Pack
    \/ StartMainloop
    \/ MainloopReturn
    \/ ExceptTclError
    \/ \E b \in Buttons : Press(b)
    \/ \E k \in 1..MaxDepth, i \in 1..Len(CHOICES) : SelectRadio(k, i)
    \/ \E k \in 1..MaxDepth : Submit(k)
    \/ CloseRoot
    \/ WaitReturn
    \/ Assign
    \/ Config
    \/ ConfigRaises
    \/ Notify
    \/ Return
    \/ Tick

SpecClock == InitClock /\ [][NextClock]_vars

\* ---------------------------------------------------------------------
\* open_choice_menu on its own, for any non-empty list of choices
\* ---------------------------------------------------------------------

ChoiceLists == UNION {[1..n -> ChoiceSet] : n \in 1..MaxLen}

\* open_choice_menu(choices) has opened its window (app.py:25-41)
InitMenu ==
    /\ InitAt({0})
    /\ dlg \in {open_choice_menu(cs) : cs \in ChoiceLists}
    /\ dlgTouched = FALSE
    /\ dlgResult = None
    /\ NoFeed

\* the user selects the i-th radio option
DlgSelect(i) ==
    /\ dlg.open
    /\ i \in 1..Len(dlg.choices)
    /\ dlg' = radio_select(dlg, i)
    /\ dlgTouched' = TRUE
    /\ UNCHANGED <<progVars, dlgResult, feedVars>>

\* the user submits or closes the window: wait_window returns and
\* open_choice_menu returns radio_out.get() (app.py:38, 41-42)
DlgDestroy ==
    /\ dlg.open
    /\ dlg' = window_destroy(dlg)
    /\ dlgResult' = menu_result(dlg')
    /\ UNCHANGED <<progVars, dlgTouched, feedVars>>

NextMenu ==
    \/ \E i \in 1..MaxLen : DlgSelect(i)
    \/ DlgDestroy

SpecMenu == InitMenu /\ [][NextMenu]_vars

\* ---------------------------------------------------------------------
\* ResponseGraph on its own: two fresh graphs fed the same events
\* ---------------------------------------------------------------------

\* both graphs receive update(old_resp, new_resp) (app.py:149-163)
FeedUpdate(old_resp, new_resp) ==
    /\ Total(fedPlus) < MaxEvents
    /\ fg' = [g \in FeedGraphs |->
                 ResponseGraph_receive(fg[g], old_resp, new_resp)]
    /\ fedPlus' = [fedPlus EXCEPT ![new_resp] = @ + 1]
    /\ fedMinus' = IF old_resp = None THEN fedMinus
                   ELSE [fedMinus EXCEPT ![old_resp] = @ + 1]
    /\ UNCHANGED <<progVars, dlgVars>>

\* one of the graphs is redrawn: draw() (app.py:165-171)
FeedDraw(g) ==
    /\ fg[g].draws < MaxDraws
    /\ fg' = [fg EXCEPT ![g] = ResponseGraph_draw(@)]
    /\ UNCHANGED <<progVars, dlgVars, fedPlus, fedMinus>>

NextFeed ==
    \/ \E o \in ChoiceSet \cup {None}, n \in ChoiceSet : FeedUpdate(o, n)
    \/ \E g \in FeedGraphs : FeedDraw(g)

SpecFeed == Init /\ [][NextFeed]_vars

\* ---------------------------------------------------------------------
\* Properties
\* ---------------------------------------------------------------------

\* the event loop or the main script is in control: no activation is
\* between the return of its prompt and its own return
Quiescent == stack = <<>> \/ Top.pc = "wait"

GraphBuilt == graph \in DOMAIN bars

\* C1: with the graph registered before the first button is created, whenever
\* no update_response is in the middle of its statements the sum of the
\* graph's counts equals the number of buttons that have completed a response
C1_SumIsResponded ==
    (GraphBuilt /\ Quiescent) =>
        Total(bars[graph]) = Cardinality(responded)

\* every button has responded and at least one of them has re-selected a
\* different choice
C1_Witness ==
    /\ GraphBuilt
    /\ stack = <<>>
    /\ responded = Buttons
    /\ presses > 0
    /\ pc = "mainloop"
    /\ bars[graph][CHOICES[1]] = 0
    /\ Total(bars[graph]) = NumButtons

\* C2 (as claimed): when an activation on a button that stored choice old
\* (immediately before the new selection) stores a different choice new, the
\* notified graph's count for old goes down by one, the count for new up by
\* one, and every other count stays
C2_Claim ==
    [][(/\ stack # <<>>
        /\ Top.pc = "notify"
        /\ Top.idx <= Len(subscribers)
        /\ Top.prev # None
        /\ Top.prev # resp[Top.but])
       => bars'[subscribers[Top.idx]] =
              [bars[subscribers[Top.idx]] EXCEPT ![Top.prev] = @ - 1,
                                                 ![resp[Top.but]] = @ + 1]]_vars

\* C3: every update of a subscriber is invoked by an activation whose button
\* already stores the prompt's result and which has not returned, and an
\* activation returns only after it has gone through all subscribers
C3_Update ==
    \A g \in DOMAIN bars :
        draws'[g] # draws[g] =>
            /\ stack # <<>>
            /\ Top.ret # None
            /\ resp[Top.but] = Top.ret
            /\ Len(stack') = Len(stack)
            /\ stack'[Len(stack)].but = Top.but

C3_NotifyAfterStoreBeforeReturn ==
    /\ [][C3_Update]_vars
    /\ []((stack # <<>> /\ Top.pc = "return") =>
            (Top.idx = Len(subscribers) + 1 /\ resp[Top.but] = Top.ret))

\* a button command is about to return after it changed the response and
\* notified the graph
C3_Witness ==
    /\ stack # <<>>
    /\ Top.pc = "return"
    /\ ~Top.ctor
    /\ Top.old_resp # Top.ret
    /\ Top.idx = Len(subscribers) + 1
    /\ draws[graph] > NumButtons

\* C4 (as claimed): a completed response has delivered one update to every
\* subscriber, whose first argument is None for the button's first response
\* and otherwise the choice the button stored immediately before the new
\* selection
C4_Claim ==
    (stack # <<>> /\ Top.pc = "return") =>
        /\ Top.idx = Len(subscribers) + 1
        /\ Top.old_resp = Top.prev

\* C5: a constructed graph that has received no update has a zero count for
\* every choice of CHOICES and no other entry
C5_FreshGraphZero ==
    \A g \in DOMAIN bars :
        draws[g] = 1 =>
            /\ DOMAIN bars[g] = ChoiceSet
            /\ \A c \in ChoiceSet : bars[g][c] = 0

\* the graph is built and registered and no response has reached it: the
\* first button's prompt is open
C5_Witness ==
    /\ GraphBuilt
    /\ draws[graph] = 1
    /\ subscribers = <<graph>>
    /\ pc = "init"
    /\ created = 1

\* C6: after source 1 picked the first choice, source 2 the second and
\* source 1 re-selected the third, the tally is {0, 1, 1}
C6_ScenarioTally ==
    (scen = Len(Scenario) /\ Quiescent) =>
        bars[graph] = (CHOICES[1] :> 0 @@ CHOICES[2] :> 1 @@ CHOICES[3] :> 1)

\* the scenario has been played to its end
C6_Witness ==
    /\ scen = Len(Scenario)
    /\ stack = <<>>
    /\ resp[1] = CHOICES[3]
    /\ resp[2] = CHOICES[2]

\* C7: open_choice_menu returns a member of its non-empty list, and the
\* first choice when the user never selected a radio option
C7_MenuResult ==
    ~dlg.open =>
        /\ dlgResult \in Elems(dlg.choices)
        /\ ~dlgTouched => dlgResult = dlg.choices[1]

\* a menu of several different choices was closed without a selection
C7_Witness ==
    /\ ~dlg.open
    /\ ~dlgTouched
    /\ Len(dlg.choices) > 1
    /\ dlg.choices[Len(dlg.choices)] # dlg.choices[1]
    /\ dlgResult = dlg.choices[1]

\* C8 (as claimed): every TclError raised in update_response, from a
\* constructor or from a button command, ends in the except clause of the
\* main script
C8_Claim == errFate \subseteq {"top_level"}

\* C9 (as claimed): when update_response completes on an existing button the
\* stored choice and the stored timestamp are those of the new selection
\* (no time passes between the store and the return)
C9_Claim ==
    (stack # <<>> /\ Top.pc = "return" /\ ~Top.ctor) =>
        /\ resp[Top.but] = Top.ret
        /\ time[Top.but] = strftime(clock)

\* C10: a button that has completed a response stores a member of CHOICES
\* (so None is stored only before the first response completes), and the
\* stored value is the result of the button's most recent prompt, except
\* while that result is being stored
C10_CurrentValue ==
    \A b \in Buttons :
        /\ b \in responded => resp[b] \in ChoiceSet
        /\ (stack = <<>> \/ Top.pc # "assign" \/ Top.but # b) =>
               resp[b] = lastSel[b]

\* a button was pressed and re-selected a choice other than the default
C10_Witness ==
    /\ stack = <<>>
    /\ presses > 0
    /\ responded = Buttons
    /\ resp[1] = CHOICES[2]
    /\ lastSel[1] = CHOICES[2]
    /\ bars[graph][CHOICES[2]] > 0

\* C11: the counts of a graph are a function of the update events it has
\* received (for each choice, the events with it as new minus the events
\* with it as old), so two fresh graphs fed the same events have the same
\* counts, however often either was redrawn; and a step that is no update
\* changes no count
C11_CountsFromEvents ==
    /\ [](\A g \in FeedGraphs :
            /\ \A c \in ChoiceSet : fg[g].bars[c] = fedPlus[c] - fedMinus[c]
            /\ \A h \in FeedGraphs : fg[g].bars = fg[h].bars)
    /\ [][(fedPlus' = fedPlus /\ fedMinus' = fedMinus) =>
            \A g \in FeedGraphs : fg'[g].bars = fg[g].bars]_vars

\* both graphs were fed MaxEvents events, one of them was redrawn more often
\* than the other, and a count is negative
C11_Witness ==
    /\ Total(fedPlus) = MaxEvents
    /\ fg[1].draws > fg[2].draws
    /\ \E c \in ChoiceSet : fg[2].bars[c] < 0

\* number of buttons whose stored response is c
Storing(c) == Cardinality({b \in Buttons : resp[b] = c})

\* each count of the main graph is the number of buttons storing the choice
TallyMatches == \A c \in ChoiceSet : bars[graph][c] = Storing(c)

\* C12: when activations never overlap, after every completed response (no
\* activation in progress, root window not closed) each count is the number
\* of buttons currently storing that choice; notifying a re-selection of the
\* stored choice changes no count
C12_TallyMatchesSequential ==
    /\ []((GraphBuilt /\ stack = <<>> /\ rootAlive) => TallyMatches)
    /\ [][(/\ stack # <<>>
           /\ Top.pc = "notify"
           /\ Top.old_resp = resp[Top.but]) => bars' = bars]_vars

\* both buttons have responded and every allowed press has completed, the
\* first button now storing the third choice
C12_Witness ==
    /\ GraphBuilt
    /\ stack = <<>>
    /\ rootAlive
    /\ presses = MaxPresses
    /\ responded = Buttons
    /\ resp[1] = CHOICES[3]
    /\ bars[graph][CHOICES[3]] = Storing(CHOICES[3])
    /\ bars[graph][CHOICES[1]] = Storing(CHOICES[1])

\* C13 (as claimed): for every interleaving of activations, once all open
\* prompts have completed each count is the number of buttons storing that
\* choice
C13_Claim == (GraphBuilt /\ stack = <<>> /\ rootAlive) => TallyMatches

\* C14 (as claimed): no count of the graph is ever negative
C14_Claim == GraphBuilt => \A c \in ChoiceSet : bars[graph][c] >= 0

\* C15 (as claimed): the k-th button created, counting from 0, has but_id
\* k, and the class counter _next_id has advanced by one per created button
C15_Claim ==
    /\ \A b \in 1..created : but_id[b] = <<b - 1>>
    /\ next_id = created

\* C16 (as claimed): a fresh graph registered after some button already
\* holds a response never has a negative count, and the sum of its counts
\* is the number of buttons whose responses it has been notified of
C16_Claim ==
    late \in DOMAIN bars =>
        /\ \A c \in ChoiceSet : bars[late][c] >= 0
        /\ Total(bars[late]) = Cardinality(seen[late])

\* C17: a button never has more than one tooltip window, and while the root
\* window exists self.tooltip is None exactly when it has none; a step that
\* changes a button's tooltip state while the root window stays either
\* creates the one window where there was none or destroys the existing one
\* and resets self.tooltip, and it changes no stored response and no count
C17_Step ==
    \A b \in Buttons :
        (tip'[b] # tip[b] /\ rootAlive') =>
            /\ \/ /\ tip[b] = [tooltip |-> <<>>, windows |-> 0]
                  /\ tip'[b].tooltip # <<>>
                  /\ tip'[b].windows = 1
               \/ /\ tip[b].tooltip # <<>>
                  /\ tip'[b] = [tooltip |-> <<>>, windows |-> 0]
            /\ UNCHANGED <<resp, bars>>

C17_OneTooltip ==
    /\ [](\A b \in Buttons :
            /\ tip[b].windows <= 1
            /\ rootAlive => (tip[b].tooltip = <<>> <=> tip[b].windows = 0))
    /\ [][C17_Step]_vars

\* a button re-selected another choice while its tooltip, made for the
\* first response, is still shown
C17_Witness ==
    /\ rootAlive
    /\ stack = <<>>
    /\ presses > 0
    /\ tip[1].windows = 1
    /\ tip[1].tooltip # <<>>
    /\ tip[1].tooltip[1][2] # resp[1]

====
